---- MODULE Spec2Model ----
(***************************************************************************)
(* Model of the convert-to-youtube edge function                           *)
(* (supabase/functions/convert-to-youtube/index.ts).  The file holds three *)
(* revisions of the handler: the API-key revision with title scoring       *)
(* (lines 1-193), the first API-key revision (lines 195-327) and the       *)
(* Innertube revision (lines 328-474).  `variant` says which one is        *)
(* deployed.  Strings are sequences of one-character strings.  Scores are  *)
(* exact rationals [n, d] with d > 0.                                      *)
(***************************************************************************)
EXTENDS Integers, Sequences, FiniteSets, TLC

\* ------------------------------------------------------------- bounds
MaxTracks == 2
MaxCands == 2
NumReqs == 2

\* ------------------------------------------------------------ strings
\* absent values: Undefined and Null for atoms (ids, flags), UndefStr for a
\* string (no one-character element), UndefList for a list of strings
Undefined == "undefined"
Null == "null"
UndefStr == <<"undefined">>
UndefList == <<UndefStr>>

UpperChars == <<"A","B","C","D","E","F","G","H","I","J","K","L","M",
                "N","O","P","Q","R","S","T","U","V","W","X","Y","Z">>
LowerChars == <<"a","b","c","d","e","f","g","h","i","j","k","l","m",
                "n","o","p","q","r","s","t","u","v","w","x","y","z">>
DigitChars == {"0","1","2","3","4","5","6","7","8","9"}

Range(f) == {f[i] : i \in DOMAIN f}

LowerChar(c) ==
  IF \E i \in 1..26 : UpperChars[i] = c
  THEN LowerChars[CHOOSE i \in 1..26 : UpperChars[i] = c]
  ELSE c

toLowerCase(s) == [i \in 1..Len(s) |-> LowerChar(s[i])]

IsSpace(c) == c = " "
IsAlnum(c) == c \in Range(UpperChars) \cup Range(LowerChars) \cup DigitChars
IsWordChar(c) == IsAlnum(c) \/ c = "_"

\* s.startsWith(p, i) with 1-based i
MatchAt(s, i, p) ==
  /\ i >= 1
  /\ i + Len(p) - 1 <= Len(s)
  /\ \A k \in 1..Len(p) : s[i + k - 1] = p[k]

\* the same, ignoring case (the i flag); p is lower case
MatchAtCI(s, i, p) == MatchAt(toLowerCase(s), i, p)

\* least index >= from where p occurs in s, 0 when there is none
IndexFrom(s, p, from) ==
  LET hits == {i \in from..(Len(s) + 1) : MatchAt(s, i, p)}
  IN IF hits = {} THEN 0 ELSE CHOOSE i \in hits : \A j \in hits : i <= j

IndexFromCI(s, p, from) == IndexFrom(toLowerCase(s), p, from)

\* greatest index where p occurs in s, 0 when there is none
LastIndex(s, p) ==
  LET hits == {i \in 1..(Len(s) + 1) : MatchAt(s, i, p)}
  IN IF hits = {} THEN 0 ELSE CHOOSE i \in hits : \A j \in hits : i >= j

includes(s, p) == IndexFrom(s, p, 1) # 0

\* s with the characters i..j removed
Cut(s, i, j) == SubSeq(s, 1, i - 1) \o SubSeq(s, j + 1, Len(s))

RECURSIVE trimStart(_)
trimStart(s) == IF s # <<>> /\ IsSpace(Head(s)) THEN trimStart(Tail(s)) ELSE s

RECURSIVE trimEnd(_)
trimEnd(s) ==
  IF s # <<>> /\ IsSpace(s[Len(s)]) THEN trimEnd(SubSeq(s, 1, Len(s) - 1)) ELSE s

trim(s) == trimEnd(trimStart(s))

\* .replace(/\s+/g, " ")
RECURSIVE collapseSpaces(_)
collapseSpaces(s) ==
  IF s = <<>> THEN <<>>
  ELSE IF IsSpace(Head(s))
       THEN <<" ">> \o collapseSpaces(trimStart(s))
       ELSE <<Head(s)>> \o collapseSpaces(Tail(s))

\* Innertube revision: lower case, [^\w\s] -> " ", collapse, trim
normalize(text) ==
  LET low == toLowerCase(text)
      rep == [i \in 1..Len(low) |->
                IF IsWordChar(low[i]) \/ IsSpace(low[i]) THEN low[i] ELSE " "]
  IN trim(collapseSpaces(rep))

\* API-key revision: lower case, [^a-z0-9\s] (i flag) -> " ", collapse, trim
normalizeApi(s) ==
  LET low == toLowerCase(s)
      rep == [i \in 1..Len(low) |->
                IF IsAlnum(low[i]) \/ IsSpace(low[i]) THEN low[i] ELSE " "]
  IN trim(collapseSpaces(rep))

\* s.split(" ")
RECURSIVE split(_)
split(s) ==
  LET i == IndexFrom(s, <<" ">>, 1)
  IN IF i = 0 THEN <<s>>
     ELSE <<SubSeq(s, 1, i - 1)>> \o split(SubSeq(s, i + 1, Len(s)))

\* ------------------------------------------------------------ literals
S_feat == <<"(","f","e","a","t">>
S_featDot == <<"(","f","e","a","t",".">>
S_dashFeat == <<" ","-"," ","f","e","a","t",".">>
S_dashFrom == <<" ","-"," ","f","r","o","m"," ","\"">>
S_parFrom == <<"(","f","r","o","m"," ","\"">>
S_quotePar == <<"\"",")">>
S_version == <<"v","e","r","s","i","o","n">>
S_official == <<"o","f","f","i","c","i","a","l">>
S_audio == <<"a","u","d","i","o">>
S_soundtrack == <<"s","o","u","n","d","t","r","a","c","k">>
S_ost == <<"o","s","t">>
S_slowed == <<"s","l","o","w","e","d">>
S_reverb == <<"r","e","v","e","r","b">>
S_spedUp == <<"s","p","e","d"," ","u","p">>
S_remix == <<"r","e","m","i","x">>
S_live == <<"l","i","v","e">>
S_undefined == <<"u","n","d","e","f","i","n","e","d">>
S_officialAudio == <<" ","o","f","f","i","c","i","a","l"," ","a","u","d","i","o">>
S_originalSong == <<" ","o","r","i","g","i","n","a","l"," ","s","o","n","g">>
S_lyrics == <<" ","l","y","r","i","c","s">>
S_movieSong == <<" ","m","o","v","i","e"," ","s","o","n","g">>

\* ----------------------------------------------------------- cleaners
\* start of the run of spaces that ends at position e (s[e] is a space),
\* not going below lo
RECURSIVE RunStart(_, _, _)
RunStart(s, e, lo) ==
  IF e > lo /\ IsSpace(s[e - 1]) THEN RunStart(s, e - 1, lo) ELSE e

\* .replace(/\(feat.*?\)/gi, "") scanning from position from
RECURSIVE stripFeatLazy(_, _)
stripFeatLazy(s, from) ==
  LET i == IndexFromCI(s, S_feat, from)
      j == IF i = 0 THEN 0 ELSE IndexFrom(s, <<")">>, i + Len(S_feat))
  IN IF i = 0 \/ j = 0 THEN s ELSE stripFeatLazy(Cut(s, i, j), i)

\* .replace(/ - from ".*?"/gi, "")
RECURSIVE stripFromLazy(_, _)
stripFromLazy(s, from) ==
  LET i == IndexFromCI(s, S_dashFrom, from)
      j == IF i = 0 THEN 0 ELSE IndexFrom(s, <<"\"">>, i + Len(S_dashFrom))
  IN IF i = 0 \/ j = 0 THEN s ELSE stripFromLazy(Cut(s, i, j), i)

\* .replace(/\[.*]/g, ""): first "[" up to the last "]"
stripBrackets(s) ==
  LET i == IndexFrom(s, <<"[">>, 1)
      j == LastIndex(s, <<"]">>)
  IN IF i = 0 \/ j < i THEN s ELSE Cut(s, i, j)

\* .replace(/\(.*?version.*?\)/gi, "")
RECURSIVE stripVersion(_, _)
stripVersion(s, from) ==
  LET i == IndexFrom(s, <<"(">>, from)
      v == IF i = 0 THEN 0 ELSE IndexFromCI(s, S_version, i + 1)
      j == IF v = 0 THEN 0 ELSE IndexFrom(s, <<")">>, v + Len(S_version))
  IN IF i = 0 \/ v = 0 \/ j = 0 THEN s ELSE stripVersion(Cut(s, i, j), i)

\* .replace(/\s+official.*$/gi, "")
stripOfficialTail(s) ==
  LET hits == {k \in 2..Len(s) : IsSpace(s[k - 1]) /\ MatchAtCI(s, k, S_official)}
      k0 == CHOOSE k \in hits : \A m \in hits : k <= m
  IN IF hits = {} THEN s ELSE SubSeq(s, 1, RunStart(s, k0 - 1, 1) - 1)

\* Innertube revision
cleanTitle(title) ==
  trim(stripOfficialTail(stripVersion(stripBrackets(
         stripFromLazy(stripFeatLazy(title, 1), 1)), 1)))

\* .replace(/ - From ".*"/i, ""): greedy, first match only
stripFromGreedy(s) ==
  LET i == IndexFromCI(s, S_dashFrom, 1)
      j == LastIndex(s, <<"\"">>)
  IN IF i = 0 \/ j < i + Len(S_dashFrom) THEN s ELSE Cut(s, i, j)

\* .replace(/\(From ".*"\)/i, "")
stripParFrom(s) ==
  LET i == IndexFromCI(s, S_parFrom, 1)
      j == LastIndex(s, S_quotePar)
  IN IF i = 0 \/ j < i + Len(S_parFrom) THEN s ELSE Cut(s, i, j + 1)

\* .replace(/\(feat\..*\)/i, "")
stripFeatGreedy(s) ==
  LET i == IndexFromCI(s, S_featDot, 1)
      j == LastIndex(s, <<")">>)
  IN IF i = 0 \/ j < i + Len(S_featDot) THEN s ELSE Cut(s, i, j)

\* .replace(/ - feat\..*/i, "")
stripDashFeat(s) ==
  LET i == IndexFromCI(s, S_dashFeat, 1)
  IN IF i = 0 THEN s ELSE SubSeq(s, 1, i - 1)

\* .replace(/\s+\[[^\]]+\]/g, "")
RECURSIVE stripSpacedTags(_, _)
stripSpacedTags(s, from) ==
  LET close(b) == IndexFrom(s, <<"]">>, b + 1)
      hits == {b \in (from + 1)..Len(s) :
                 /\ s[b] = "["
                 /\ IsSpace(s[b - 1])
                 /\ close(b) > b + 1}
      b0 == CHOOSE b \in hits : \A m \in hits : b <= m
      i == RunStart(s, b0 - 1, from)
  IN IF hits = {} THEN s ELSE stripSpacedTags(Cut(s, i, close(b0)), i)

\* API-key revision
cleanTrackName(name) ==
  trim(stripSpacedTags(stripDashFeat(stripFeatGreedy(
         stripParFrom(stripFromGreedy(name)))), 1))

\* ------------------------------------------------------------ scoring
Min3(x, y, z) == IF x <= y /\ x <= z THEN x ELSE IF y <= z THEN y ELSE z
Max2(x, y) == IF x >= y THEN x ELSE y

\* one row of the edit-distance matrix: position k holds column k - 1.
\* prev is row i - 1, ch is b.charAt(i - 1), acc the part of row i built so far
RECURSIVE matrixRow(_, _, _, _)
matrixRow(prev, a, ch, acc) ==
  LET j == Len(acc)
  IN IF j > Len(a) THEN acc
     ELSE matrixRow(prev, a, ch,
            Append(acc, IF ch = a[j] THEN prev[j]
                        ELSE Min3(prev[j] + 1, acc[j] + 1, prev[j + 1] + 1)))

RECURSIVE matrixRows(_, _, _, _)
matrixRows(a, b, i, prev) ==
  IF i > Len(b) THEN prev
  ELSE matrixRows(a, b, i + 1, matrixRow(prev, a, b[i], <<i>>))

\* matrix[b.length][a.length]
editDistance(a, b) ==
  matrixRows(a, b, 1, [k \in 1..(Len(a) + 1) |-> k - 1])[Len(a) + 1]

\* rationals: [n |-> numerator, d |-> denominator], d > 0.  The code's
\* numbers are IEEE doubles; for the titles of TrackInputs and Cands the
\* doubles compare as the exact values do
Rat(n, d) == [n |-> n, d |-> d]
RatGt(x, y) == x.n * y.d > y.n * x.d
RatGe(x, y) == x.n * y.d >= y.n * x.d
RatEq(x, y) == x.n * y.d = y.n * x.d
Zero == Rat(0, 1)

\* 1 - distance / max(a.length, b.length); 0 when either string is empty
similarity(a, b) ==
  IF a = <<>> \/ b = <<>> THEN Zero
  ELSE LET m == Max2(Len(a), Len(b))
       IN Rat(m - editDistance(a, b), m)

\* /official|audio|soundtrack|ost/.test(t)
HasPositiveSignal(t) ==
  \E w \in {S_official, S_audio, S_soundtrack, S_ost} : includes(t, w)

\* /slowed|reverb|sped up|remix|live/.test(t)
HasNegativeSignal(t) ==
  \E w \in {S_slowed, S_reverb, S_spedUp, S_remix, S_live} : includes(t, w)

\* xs.join(" ")
RECURSIVE join(_)
join(xs) ==
  IF xs = <<>> THEN <<>>
  ELSE IF Len(xs) = 1 THEN xs[1]
  ELSE xs[1] \o <<" ">> \o join(Tail(xs))

\* (r.author || r.artists?.map(x => x.name).join(" ")) ?? ""
CandidateAuthor(r) ==
  IF r.author # UndefStr /\ r.author # <<>> THEN r.author
  ELSE IF r.artists = UndefList THEN <<>>
  ELSE join(r.artists)

\* the negative signal adds 1 in place of subtracting it
TrackScoreRewardsNegative(name, artist, r) ==
  LET titleNorm == normalize(IF r.title = UndefStr THEN <<>> ELSE r.title)
      artistNorm == normalize(CandidateAuthor(r))
      sim == similarity(normalize(name), titleNorm)
      bonus == (IF /\ artist # UndefStr
                   /\ artist # <<>>
                   /\ includes(artistNorm, normalize(artist))
                THEN 20 ELSE 0)
             + (IF HasPositiveSignal(titleNorm) THEN 6 ELSE 0)
             + (IF HasNegativeSignal(titleNorm) THEN 20 ELSE 0)
  IN Rat(40 * sim.n + bonus * sim.d, 20 * sim.d)

\* the score of one search result in searchYouTubeTrack, in twentieths:
\* similarity * 2, +1 artist, +0.3 positive signal, -1 negative signal
TrackScore(name, artist, r) ==
  LET titleNorm == normalize(IF r.title = UndefStr THEN <<>> ELSE r.title)
      artistNorm == normalize(CandidateAuthor(r))
      sim == similarity(normalize(name), titleNorm)
      bonus == (IF /\ artist # UndefStr
                   /\ artist # <<>>
                   /\ includes(artistNorm, normalize(artist))
                THEN 20 ELSE 0)
             + (IF HasPositiveSignal(titleNorm) THEN 6 ELSE 0)
             - (IF HasNegativeSignal(titleNorm) THEN 20 ELSE 0)
  IN Rat(40 * sim.n + bonus * sim.d, 20 * sim.d)

\* bestScore >= 0.55
AcceptThreshold == Rat(55, 100)

\* the score of one item in searchYouTubeMusic, in quarters:
\* +2 when the title holds the whole cleaned title, +0.25 per shared word
ItemScore(cleanedTitle, item) ==
  LET normalizedTitle == normalizeApi(cleanedTitle)
      title == normalizeApi(IF item.title = UndefStr THEN <<>> ELSE item.title)
      words == split(normalizedTitle)
      shared == {k \in 1..Len(words) : words[k] # <<>> /\ includes(title, words[k])}
  IN Rat((IF includes(title, normalizedTitle) THEN 8 ELSE 0) + Cardinality(shared), 4)

\* -------------------------------------------------------------- data
\* request tracks: name and artists as sent by the caller; youtubeId and
\* found are the optional fields of interface Track
Track(name, artists, youtubeId, found) ==
  [name |-> name, artists |-> artists, youtubeId |-> youtubeId, found |-> found]

TrackA == Track(<<"A","b">>, << <<"z">> >>, Undefined, Undefined)
TrackB == Track(<<"a","b"," ","[","x","]">>, <<>>, "old", "true")
TrackC == Track(UndefStr, << <<"z">> >>, Undefined, Undefined)
TrackD == Track(<<"a","b">>, UndefList, "old", "false")
TrackInputs == {TrackA, TrackB, TrackC, TrackD}

\* search results: id, title, author, artists (names)
Cand(id, title, author, artists) ==
  [id |-> id, title |-> title, author |-> author, artists |-> artists]

NoCand == Cand(Null, UndefStr, UndefStr, UndefList)
Cand1 == Cand("v1", <<"A","b">>, <<"z">>, UndefList)
Cand2 == Cand("v2", <<"a","b">>, UndefStr, << <<"z">> >>)
Cand3 == Cand("v3", <<"a","b"," ","l","i","v","e">>, <<"z">>, UndefList)
Cand4 == Cand("v4", <<"o","s","t">>, UndefStr, UndefList)
Cand5 == Cand(Undefined, <<"a","b">>, <<"z">>, UndefList)
Cand6 == Cand("v6", <<"x","y">>, UndefStr, UndefList)
Cands == {Cand1, Cand2, Cand3, Cand4, Cand5, Cand6}

SeqsUpTo(S, n) == UNION {[1..k -> S] : k \in 0..n}

\* the value of `tracks` in the request body
TracksValue(kind, items, len) == [kind |-> kind, items |-> items, len |-> len]
ArrayValues == {TracksValue("array", ts, Len(ts)) : ts \in SeqsUpTo(TrackInputs, MaxTracks)}
NonArrayValues ==
  { TracksValue("undefined", <<>>, 0), TracksValue("null", <<>>, 0),
    TracksValue("number", <<>>, 0), TracksValue("object", <<>>, 0),
    TracksValue("string", <<>>, 0), TracksValue("string", <<>>, 2) }

Body(method, json, tracks) == [method |-> method, json |-> json, tracks |-> tracks]
NoRequest == Body("none", "invalid", TracksValue("undefined", <<>>, 0))
Bodies ==
  {Body("POST", "ok", t) : t \in ArrayValues \cup NonArrayValues}
    \cup {Body("POST", "invalid", TracksValue("undefined", <<>>, 0)),
          Body("OPTIONS", "invalid", TracksValue("undefined", <<>>, 0))}

\* !tracks
Falsy(t) == t.kind \in {"undefined", "null"} \/ (t.kind = "string" /\ t.len = 0)
\* for (const track of tracks) throws a TypeError
NotIterable(t) == t.kind \in {"undefined", "null", "number", "object"}
Truthy(id) == id \notin {Undefined, Null, ""}

Variants == {"apikey", "apikey0", "innertube"}
Reqs == 1..NumReqs

\* ------------------------------------------------------------- state
VARIABLES
  variant,       \* which revision of index.ts is deployed
  yt,            \* module-level `let yt`: 0 is null, r the instance created for r
  created,       \* number of Innertube.create calls made so far
  history,       \* rows of conversion_history
  body,          \* the request each handler invocation receives
  pc,            \* where each handler invocation is suspended
  idx,           \* 1-based position of the for-of loop in tracks
  final,         \* convertedTracks / final
  success,       \* successfulConversions / success
  q,             \* position in `queries` of searchYouTubeTrack
  bestMatch,     \* bestMatch / bestItem of the selection in progress or last made
  bestScore,     \* bestScore of that selection
  client,        \* the `yt` local of searchYouTubeTrack, 0 before getClient returns
  response,      \* the Response returned, NoResponse until then
  refBest,       \* history: first result of greatest score seen for the track
  failedTracks,  \* history: positions whose search call failed
  searchCalls,   \* history: number of search calls issued
  persist,       \* history: outcome of the conversion_history insert
  abortCause,    \* history: what made the handler reach its catch block
  queriesSent,   \* history: the query strings searched so far for the current track
  issued,        \* history: the rows passed to the conversion_history insert
  scoring        \* one evaluation of the scoring loop body on a pair of results

vars == <<variant, yt, created, history, body, pc, idx, final, success, q,
          bestMatch, bestScore, client, response, refBest, failedTracks,
          searchCalls, persist, abortCause, queriesSent,
          issued, scoring>>

reqVars == <<idx, final, success, q, bestMatch, bestScore, client, refBest>>

Resp(status, ok, error, tracks, total, succ, url) ==
  [status |-> status, ok |-> ok, error |-> error, tracks |-> tracks,
   total |-> total, success |-> succ, youtubePlaylistUrl |-> url]
NoResponse == Resp(0, FALSE, Undefined, <<>>, 0, 0, Undefined)
ErrorResponse(status, msg) == Resp(status, FALSE, msg, <<>>, 0, 0, Undefined)
\* the preflight answer: status 200, null body
OptionsResponse == Resp(200, FALSE, Undefined, <<>>, 0, 0, Undefined)

NumQueries == 5

\* no scoring evaluation under way
NoScoring ==
  [pc |-> "idle", track |-> TrackA, plain |-> NoCand, marked |-> NoCand,
   simPlain |-> Zero, simMarked |-> Zero, scorePlain |-> Zero, scoreMarked |-> Zero]

\* the module just loaded, no request served yet
InitHandlers(bodies) ==
  /\ variant \in Variants
  /\ yt = 0
  /\ created = 0
  /\ history = <<>>
  /\ body \in bodies
  /\ pc = [r \in Reqs |-> "start"]
  /\ idx = [r \in Reqs |-> 1]
  /\ final = [r \in Reqs |-> <<>>]
  /\ success = [r \in Reqs |-> 0]
  /\ q = [r \in Reqs |-> 1]
  /\ bestMatch = [r \in Reqs |-> NoCand]
  /\ bestScore = [r \in Reqs |-> Zero]
  /\ client = [r \in Reqs |-> 0]
  /\ response = [r \in Reqs |-> NoResponse]
  /\ refBest = [r \in Reqs |-> NoCand]
  /\ failedTracks = [r \in Reqs |-> {}]
  /\ searchCalls = [r \in Reqs |-> 0]
  /\ persist = [r \in Reqs |-> "none"]
  /\ abortCause = [r \in Reqs |-> "none"]
  /\ queriesSent = [r \in Reqs |-> <<>>]
  /\ issued = [r \in Reqs |-> <<>>]

InitOf(bodies) == InitHandlers(bodies) /\ scoring = NoScoring

\* ----------------------------------------------------- handler steps
\* return new Response(...): the invocation is over
Reply(r, resp, cause) ==
  /\ response' = [response EXCEPT ![r] = resp]
  /\ abortCause' = [abortCause EXCEPT ![r] = cause]
  /\ pc' = [pc EXCEPT ![r] = "done"]

\* the catch block of the handler
Catch(r, msg, cause) == Reply(r, ErrorResponse(500, msg), cause)

\* the spread written last: { youtubeId, found, ...track }
ConvertedTrackInputWins(track, id) ==
  [track EXCEPT !.youtubeId = IF @ # Undefined THEN @
                              ELSE IF Truthy(id) THEN id ELSE Undefined,
                !.found = IF @ # Undefined THEN @
                          ELSE IF Truthy(id) THEN "true" ELSE "false"]

\* { ...track, youtubeId: id || undefined, found: !!id }
ConvertedTrack(track, id) ==
  [track EXCEPT !.youtubeId = IF Truthy(id) THEN id ELSE Undefined,
                !.found = IF Truthy(id) THEN "true" ELSE "false"]

\* unshift in place of push
PushFront(list, t) == <<t>> \o list

\* convertedTracks.push(t) / final.push(t)
Push(list, t) == Append(list, t)

\* success++ without the test
CountEvery(n, id) == n + 1

\* if (id) success++
CountSuccess(n, id) == IF Truthy(id) THEN n + 1 ELSE n

\* the statements after a search returns id: push, count, next iteration
Record(r, id) ==
  /\ final' = [final EXCEPT ![r] = Push(@, ConvertedTrack(body[r].tracks.items[idx[r]], id))]
  /\ success' = [success EXCEPT ![r] = CountSuccess(@, id)]
  /\ idx' = [idx EXCEPT ![r] = @ + 1]
  /\ pc' = [pc EXCEPT ![r] = "loop"]

\* ---------------------------------------------------------- selection
\* >= in place of >
BetterOrEqual(score, best) == RatGe(score, best)

\* if (score > bestScore)
Better(score, best) == RatGt(score, best)

Best(match, score) == [match |-> match, score |-> score]

\* the inner loop of searchYouTubeTrack over one query's results
\* the scores the two scoring loops compute, tabulated per track and result
ScoredTracks == {t \in TrackInputs : t.name # UndefStr /\ t.artists # UndefList}
NamedTracks == {t \in TrackInputs : t.name # UndefStr}

\* track.artists[0]
FirstArtist(track) == IF track.artists = <<>> THEN UndefStr ELSE track.artists[1]

\* searchYouTubeTrack(cleanTitle(track.name), track.artists[0]) scoring r
TrackScoreTable ==
  [t \in ScoredTracks, r \in Cands |-> TrackScore(cleanTitle(t.name), FirstArtist(t), r)]

\* searchYouTubeMusic(query, cleanTrackName(track.name), key) scoring item
ItemScoreTable ==
  [t \in NamedTracks, item \in Cands |-> ItemScore(cleanTrackName(t.name), item)]

\* the inner loop of searchYouTubeTrack over one query's results
RECURSIVE BestOfResults(_, _, _)
BestOfResults(track, res, best) ==
  IF res = <<>> THEN best
  ELSE LET score == TrackScoreTable[track, Head(res)]
       IN BestOfResults(track, Tail(res),
            IF Better(score, best.score) THEN Best(Head(res), score) ELSE best)

\* the loop of searchYouTubeMusic over data.items
RECURSIVE BestOfItems(_, _, _)
BestOfItems(track, items, best) ==
  IF items = <<>> THEN best
  ELSE LET score == ItemScoreTable[track, Head(items)]
       IN BestOfItems(track, Tail(items),
            IF Better(score, best.score) THEN Best(Head(items), score) ELSE best)

\* bestMatch?.id ?? null, bestItem.id?.videoId ?? null
IdOf(match) == IF match = NoCand \/ match.id = Undefined THEN Null ELSE match.id

\* the return without the threshold test
AcceptAny(score, match) == IdOf(match)

\* return bestScore >= 0.55 ? bestMatch?.id ?? null : null
Accept(score, match) == IF RatGe(score, AcceptThreshold) THEN IdOf(match) ELSE Null

\* maxResults of the search request
MaxResults(v) == IF v = "apikey0" THEN 1 ELSE 5

\* the first element of greatest score in a sequence of results, NoCand if empty
FirstMax(score(_), res) ==
  IF res = <<>> THEN NoCand
  ELSE res[CHOOSE i \in 1..Len(res) :
             /\ \A j \in 1..Len(res) : RatGe(score(res[i]), score(res[j]))
             /\ \A j \in 1..(i - 1) : ~RatEq(score(res[j]), score(res[i]))]

Seen(ref, res) == IF ref = NoCand THEN res ELSE <<ref>> \o res

CurTrack(r) == body[r].tracks.items[idx[r]]

\* what the search collaborator may return for one call
ResultLists == SeqsUpTo(Cands, MaxCands)
ItemLists(v) == {items \in ResultLists : Len(items) <= MaxResults(v)}

\* ------------------------------------------------------------ queries
\* ${x} in a template literal
Interpolate(x) == IF x = UndefStr THEN S_undefined ELSE x

\* const queries = [...] of searchYouTubeTrack
Queries(name, artist) ==
  << Interpolate(name) \o <<" ">> \o Interpolate(artist),
     Interpolate(name) \o S_officialAudio,
     Interpolate(name) \o S_originalSong,
     Interpolate(name) \o <<" ">> \o Interpolate(artist) \o S_lyrics,
     Interpolate(name) \o S_movieSong >>

\* track.artists?.[0] ?? ""
PrimaryArtist(track) ==
  IF track.artists = UndefList \/ track.artists = <<>> THEN <<>> ELSE track.artists[1]

\* searchQuery of the API-key revisions
SearchQuery(v, track) ==
  IF v = "apikey"
    THEN cleanTrackName(track.name) \o <<" ">> \o PrimaryArtist(track) \o S_officialAudio
    ELSE Interpolate(track.name) \o <<" ">> \o join(track.artists) \o S_officialAudio

\* the queries of every track that reaches a search, tabulated
QueriesTable ==
  [t \in ScoredTracks |-> Queries(cleanTitle(t.name), FirstArtist(t))]
SearchQueryTable ==
  [v \in {"apikey", "apikey0"}, t \in TrackInputs |->
     IF (v = "apikey" /\ t.name = UndefStr) \/ (v = "apikey0" /\ t.artists = UndefList)
       THEN <<>>
       ELSE SearchQuery(v, t)]

\* ------------------------------------------------------------ actions
\* every entry counted as a success
RowCountsEntries(r) ==
  [req |-> r, trackCount |-> body[r].tracks.len, successCount |-> Len(final[r])]

\* the row of the insert: track_count / trackCount, successful_conversions / successCount
Row(r) == [req |-> r, trackCount |-> body[r].tracks.len, successCount |-> success[r]]

\* the insert of the summary row is issued
IssueInsert(r) ==
  /\ issued' = [issued EXCEPT ![r] = Append(@, Row(r))]
  /\ pc' = [pc EXCEPT ![r] = "insert"]

\* bestMatch and bestScore declared outside searchYouTubeTrack: not reset
BeginQueriesKeepBest(r, c) ==
  /\ client' = [client EXCEPT ![r] = c]
  /\ q' = [q EXCEPT ![r] = 1]
  /\ UNCHANGED <<bestMatch, bestScore>>
  /\ refBest' = [refBest EXCEPT ![r] = NoCand]
  /\ searchCalls' = [searchCalls EXCEPT ![r] = @ + 1]
  /\ queriesSent' = [queriesSent EXCEPT ![r] = <<QueriesTable[CurTrack(r)][1]>>]
  /\ pc' = [pc EXCEPT ![r] = "search"]

\* searchYouTubeTrack after getClient returned c: first query issued
BeginQueries(r, c) ==
  /\ client' = [client EXCEPT ![r] = c]
  /\ q' = [q EXCEPT ![r] = 1]
  /\ bestMatch' = [bestMatch EXCEPT ![r] = NoCand]
  /\ bestScore' = [bestScore EXCEPT ![r] = Zero]
  /\ refBest' = [refBest EXCEPT ![r] = NoCand]
  /\ searchCalls' = [searchCalls EXCEPT ![r] = @ + 1]
  /\ queriesSent' = [queriesSent EXCEPT ![r] = <<QueriesTable[CurTrack(r)][1]>>]
  /\ pc' = [pc EXCEPT ![r] = "search"]

\* Deno.serve handler up to the first iteration of the loop
Start(r) ==
  /\ pc[r] = "start"
  /\ body[r] # NoRequest
  /\ UNCHANGED <<variant, scoring, issued, queriesSent, yt, created, history, body, reqVars, failedTracks, searchCalls>>
  /\ IF body[r].method = "OPTIONS"
       THEN Reply(r, OptionsResponse, "none") /\ UNCHANGED persist
     ELSE IF body[r].json = "invalid"
       THEN Catch(r, "Unexpected end of JSON input", "json") /\ UNCHANGED persist
     ELSE IF variant \in {"apikey", "apikey0"}
       THEN /\ UNCHANGED persist
            /\ IF Falsy(body[r].tracks) \/ body[r].tracks.kind # "array"
                 THEN Reply(r, ErrorResponse(400, "Tracks array is required"), "input")
                 ELSE \E keyConfigured \in BOOLEAN :
                        IF keyConfigured
                          THEN /\ pc' = [pc EXCEPT ![r] = "loop"]
                               /\ UNCHANGED <<response, abortCause>>
                          ELSE Catch(r, "YouTube API key not configured", "config")
       ELSE \E clientBuilt \in BOOLEAN :
              IF ~clientBuilt
                THEN /\ persist' = [persist EXCEPT ![r] = "threw"]
                     /\ Catch(r, "supabaseUrl is required.", "persist")
              ELSE IF NotIterable(body[r].tracks)
                THEN /\ Catch(r, "tracks is not iterable", "input")
                     /\ UNCHANGED persist
                ELSE /\ pc' = [pc EXCEPT ![r] = "loop"]
                     /\ UNCHANGED <<response, abortCause, persist>>

\* one pass through the head of the for-of loop, to its first await
Loop(r) ==
  /\ pc[r] = "loop"
  /\ UNCHANGED <<variant, scoring, yt, history, body, idx, final, success, failedTracks>>
  /\ IF idx[r] > body[r].tracks.len
       THEN /\ UNCHANGED <<created, q, bestMatch, bestScore, client, refBest, searchCalls,
                           queriesSent>>
            /\ IF variant = "innertube"
                 THEN IssueInsert(r) /\ UNCHANGED <<response, abortCause, persist>>
                 ELSE \E clientBuilt \in BOOLEAN :
                        IF clientBuilt
                          THEN IssueInsert(r) /\ UNCHANGED <<response, abortCause, persist>>
                          ELSE /\ persist' = [persist EXCEPT ![r] = "threw"]
                               /\ Catch(r, "supabaseUrl is required.", "persist")
                               /\ UNCHANGED issued
     ELSE IF \/ body[r].tracks.kind = "string"
             \/ (variant # "apikey0" /\ CurTrack(r).name = UndefStr)
             \/ (variant # "apikey" /\ CurTrack(r).artists = UndefList)
       THEN /\ Catch(r, "Cannot read properties of undefined", "track")
            /\ UNCHANGED <<created, q, bestMatch, bestScore, client, refBest,
                           searchCalls, persist, queriesSent, issued>>
     ELSE IF variant # "innertube"
       THEN /\ searchCalls' = [searchCalls EXCEPT ![r] = @ + 1]
            /\ queriesSent' = [queriesSent EXCEPT ![r] = <<SearchQueryTable[variant, CurTrack(r)]>>]
            /\ pc' = [pc EXCEPT ![r] = "fetch"]
            /\ UNCHANGED <<created, q, bestMatch, bestScore, client, refBest,
                           response, abortCause, persist, issued>>
     ELSE IF yt = 0
       THEN /\ created' = created + 1
            /\ pc' = [pc EXCEPT ![r] = "creating"]
            /\ UNCHANGED <<q, bestMatch, bestScore, client, refBest, searchCalls,
                           response, abortCause, persist, queriesSent, issued>>
       ELSE /\ BeginQueries(r, yt)
            /\ UNCHANGED <<created, response, abortCause, persist, issued>>

\* getClient: Innertube.create settles
CreateDone(r) ==
  /\ pc[r] = "creating"
  /\ UNCHANGED <<variant, scoring, issued, created, history, body, idx, final, success, failedTracks, persist>>
  /\ \E built \in BOOLEAN :
       IF built
         THEN /\ yt' = r
              /\ BeginQueries(r, r)
              /\ UNCHANGED <<response, abortCause>>
         ELSE /\ Catch(r, "Innertube.create failed", "create")
              /\ UNCHANGED <<yt, q, bestMatch, bestScore, client, refBest, searchCalls,
                             queriesSent>>

\* searchYouTubeTrack: yt.music.search(q) and yt.search(q) settle
SearchDone(r) ==
  /\ pc[r] = "search"
  /\ UNCHANGED <<variant, scoring, issued, yt, created, history, body, client, persist>>
  /\ \/ /\ failedTracks' = [failedTracks EXCEPT ![r] = @ \cup {idx[r]}]
        /\ Catch(r, "search failed", "search")
        /\ UNCHANGED <<idx, final, success, q, bestMatch, bestScore, refBest, searchCalls,
                       queriesSent>>
     \/ \E res \in ResultLists :
          LET score(c) == TrackScoreTable[CurTrack(r), c]
              best == BestOfResults(CurTrack(r), res, Best(bestMatch[r], bestScore[r]))
          IN /\ bestMatch' = [bestMatch EXCEPT ![r] = best.match]
             /\ bestScore' = [bestScore EXCEPT ![r] = best.score]
             /\ refBest' = [refBest EXCEPT ![r] = FirstMax(score, Seen(@, res))]
             /\ UNCHANGED <<failedTracks, response, abortCause>>
             /\ IF q[r] < NumQueries
                  THEN /\ q' = [q EXCEPT ![r] = @ + 1]
                       /\ searchCalls' = [searchCalls EXCEPT ![r] = @ + 1]
                       /\ queriesSent' = [queriesSent EXCEPT ![r] =
                                            Append(@, QueriesTable[CurTrack(r)][q[r] + 1])]
                       /\ UNCHANGED <<idx, final, success, pc>>
                  ELSE /\ Record(r, Accept(best.score, best.match))
                       /\ UNCHANGED <<q, searchCalls, queriesSent>>

\* searchYouTubeMusic: fetch settles
FetchDone(r) ==
  /\ pc[r] = "fetch"
  /\ UNCHANGED <<variant, scoring, issued, queriesSent, yt, created, history, body, q, client, searchCalls,
                 response, abortCause, persist>>
  /\ \/ /\ failedTracks' = [failedTracks EXCEPT ![r] = @ \cup {idx[r]}]
        /\ bestMatch' = [bestMatch EXCEPT ![r] = NoCand]
        /\ bestScore' = [bestScore EXCEPT ![r] = Zero]
        /\ refBest' = [refBest EXCEPT ![r] = NoCand]
        /\ Record(r, Null)
     \/ \E items \in ItemLists(variant) :
          LET score(c) == IF variant = "apikey" THEN ItemScoreTable[CurTrack(r), c] ELSE Zero
              best == IF items = <<>> THEN Best(NoCand, Zero)
                      ELSE IF variant = "apikey"
                        THEN BestOfItems(CurTrack(r), items, Best(items[1], Zero))
                        ELSE Best(items[1], Zero)
          IN /\ bestMatch' = [bestMatch EXCEPT ![r] = best.match]
             /\ bestScore' = [bestScore EXCEPT ![r] = best.score]
             /\ refBest' = [refBest EXCEPT ![r] = FirstMax(score, items)]
             /\ UNCHANGED failedTracks
             /\ Record(r, IdOf(best.match))

\* convertedTracks[0].youtubeId as used for youtubePlaylistUrl
PlaylistUrl(v, tracks) ==
  IF v = "innertube" THEN Undefined
  ELSE IF tracks = <<>> THEN Null
  ELSE IF v = "apikey" /\ ~Truthy(tracks[1].youtubeId) THEN Null
  ELSE tracks[1].youtubeId

\* the conversion_history insert settles, then the 200 response
InsertDone(r) ==
  /\ pc[r] = "insert"
  /\ UNCHANGED <<variant, scoring, issued, queriesSent, yt, created, body, reqVars, failedTracks, searchCalls>>
  /\ \E outcome \in {"stored", "rejected", "threw"} :
       /\ persist' = [persist EXCEPT ![r] = outcome]
       /\ history' = IF outcome = "stored" THEN Append(history, Row(r)) ELSE history
       /\ IF outcome = "threw"
            THEN Catch(r, "insert failed", "persist")
            ELSE Reply(r, Resp(200, TRUE, Undefined, final[r], body[r].tracks.len,
                               success[r], PlaylistUrl(variant, final[r])), "none")

Next == \E r \in Reqs : Start(r) \/ Loop(r) \/ CreateDone(r) \/ SearchDone(r)
                          \/ FetchDone(r) \/ InsertDone(r)

\* one request with every body
Init == InitOf({b \in [Reqs -> Bodies \cup {NoRequest}] :
                  b[1] # NoRequest /\ \A r \in Reqs \ {1} : b[r] = NoRequest})
Spec == Init /\ [][Next]_vars

\* concurrently served requests, each with at most one track
ConcBodies ==
  {Body("POST", "ok", TracksValue("array", ts, Len(ts))) : ts \in SeqsUpTo({TrackA}, 1)}
InitConc == InitOf([Reqs -> ConcBodies])
SpecConc == InitConc /\ [][Next]_vars

\* -------------------------------------------- the scoring loop body alone
S_spaceSlowed == <<" ">> \o S_slowed
S_slowedSpace == S_slowed \o <<" ">>
S_parSlowed == <<" ","(","S","l","o","w","e","d",")">>

\* a title with the token "slowed" put after it, before it, or after it in brackets
WithSlowed(title, form) ==
  IF form = "after" THEN title \o S_spaceSlowed
  ELSE IF form = "before" THEN S_slowedSpace \o title
  ELSE title \o S_parSlowed
SlowedForms == {"after", "before", "bracket"}

\* source tracks: with and without the token in the name, with and without artist
ScoreTracks ==
  {Track(name, artists, Undefined, Undefined) :
     name \in {<<"A","b">>, <<"a","b">> \o S_spaceSlowed, <<"x","y">>},
     artists \in {<<>>, << <<"z">> >>}}

\* results without the token: plain, carrying another negative token, carrying
\* a positive token; with and without author
PlainCands ==
  {Cand("v", title, author, UndefList) :
     title \in {<<"a","b">>, <<"x","y"," ">> \o S_live, S_ost},
     author \in {UndefStr, <<"z">>}}

\* similarity(normalize(name), titleNorm) of searchYouTubeTrack for result r
TitleSimilarity(name, r) ==
  similarity(normalize(name), normalize(IF r.title = UndefStr THEN <<>> ELSE r.title))

\* a source track and two results that differ in the token only
InitScore ==
  /\ InitHandlers({[r \in Reqs |-> NoRequest]})
  /\ \E t \in ScoreTracks, c \in PlainCands, form \in SlowedForms :
       scoring = [NoScoring EXCEPT !.pc = "input", !.track = t, !.plain = c,
                                   !.marked = [c EXCEPT !.title = WithSlowed(@, form)]]

\* the body of the scoring loop applied to both results
ScoreResults ==
  /\ scoring.pc = "input"
  /\ LET name == cleanTitle(scoring.track.name)
         artist == FirstArtist(scoring.track)
     IN scoring' = [scoring EXCEPT
                      !.pc = "scored",
                      !.simPlain = TitleSimilarity(name, scoring.plain),
                      !.simMarked = TitleSimilarity(name, scoring.marked),
                      !.scorePlain = TrackScore(name, artist, scoring.plain),
                      !.scoreMarked = TrackScore(name, artist, scoring.marked)]
  /\ UNCHANGED <<variant, yt, created, history, body, pc, reqVars, response,
                 failedTracks, searchCalls, persist, abortCause, queriesSent,
                 issued>>

NextScore == ScoreResults
SpecScore == InitScore /\ [][NextScore]_vars

\* ------------------------------------------------------------- claims
IsArrayReq(r) ==
  /\ body[r].method = "POST"
  /\ body[r].json = "ok"
  /\ body[r].tracks.kind = "array"

IsNonArrayReq(r) ==
  /\ body[r].method = "POST"
  /\ body[r].json = "ok"
  /\ body[r].tracks.kind # "array"

\* C1: a success response to a request with an array of tracks returns as
\* many entries as the input has, entry i with the name and artists of
\* input track i
C1_OrderPreserved ==
  \A r \in Reqs :
    (IsArrayReq(r) /\ response[r].ok) =>
      LET items == body[r].tracks.items
          out == response[r].tracks
      IN /\ Len(out) = Len(items)
         /\ \A i \in 1..Len(items) :
              /\ out[i].name = items[i].name
              /\ out[i].artists = items[i].artists

\* a success response for two different tracks, the first one unmatched
C1_Witness ==
  \E r \in Reqs :
    /\ response[r].ok
    /\ Len(body[r].tracks.items) >= 2
    /\ body[r].tracks.items[1] = TrackA
    /\ body[r].tracks.items[2] = TrackB
    /\ response[r].tracks[1].found = "false"
    /\ response[r].tracks[2].found = "true"

\* C2: an exception of the search collaborator while one track is resolved
\* leaves that track unmatched and the batch complete
C2_BatchSurvivesSearchFailure ==
  \A r \in Reqs :
    (pc[r] = "done" /\ failedTracks[r] # {} /\ abortCause[r] \in {"none", "search"}) =>
      /\ response[r].ok
      /\ Len(response[r].tracks) = body[r].tracks.len
      /\ \A i \in failedTracks[r] : response[r].tracks[i].found = "false"

\* C3: a failed query before the last one is followed by the next query of
\* the same track, with the best result so far kept
C3_NextQueryAfterFailure ==
  [][\A r \in Reqs :
       (pc[r] = "search" /\ q[r] < NumQueries /\ failedTracks'[r] # failedTracks[r]) =>
         /\ pc'[r] = "search"
         /\ q'[r] = q[r] + 1
         /\ bestMatch'[r] = bestMatch[r]]_vars

\* the score the deployed revision gives result c for track t (the first
\* API-key revision computes none)
ScoreOf(t, c) ==
  IF variant = "innertube" THEN TrackScoreTable[t, c]
  ELSE IF variant = "apikey" THEN ItemScoreTable[t, c]
  ELSE Zero

\* a track has just been resolved and recorded
JustSelected(r) == pc[r] \in {"loop", "insert"} /\ idx[r] > 1
LastTrack(r) == body[r].tracks.items[idx[r] - 1]
LastEntry(r) == final[r][idx[r] - 1]

\* C4 as stated: a track is matched only with a result whose score reaches
\* the acceptance threshold, and is unmatched when the best score is below it
C4_ThresholdEverywhere ==
  \A r \in Reqs :
    JustSelected(r) =>
      /\ LastEntry(r).found = "true" =>
           /\ bestMatch[r] # NoCand
           /\ RatGe(ScoreOf(LastTrack(r), bestMatch[r]), AcceptThreshold)
      /\ (refBest[r] # NoCand
            /\ ~RatGe(ScoreOf(LastTrack(r), refBest[r]), AcceptThreshold)) =>
           LastEntry(r).found = "false"

\* C4 amended: the Innertube revision matches a track only with a result
\* scoring at least 0.55 and leaves it unmatched when the best score of all
\* results is below 0.55; the API-key revisions apply no threshold and match
\* the track with their best item whenever that item carries an id
C4_ThresholdInnertubeOnly ==
  \A r \in Reqs :
    JustSelected(r) =>
      IF variant = "innertube"
        THEN /\ LastEntry(r).found = "true" =>
                  /\ bestMatch[r] # NoCand
                  /\ LastEntry(r).youtubeId = bestMatch[r].id
                  /\ RatGe(TrackScoreTable[LastTrack(r), bestMatch[r]], AcceptThreshold)
             /\ (refBest[r] # NoCand
                   /\ ~RatGe(TrackScoreTable[LastTrack(r), refBest[r]], AcceptThreshold)) =>
                  LastEntry(r).found = "false"
        ELSE /\ LastEntry(r).found = "true" <=>
                  (bestMatch[r] # NoCand /\ bestMatch[r].id # Undefined)
             /\ LastEntry(r).found = "true" =>
                  LastEntry(r).youtubeId = bestMatch[r].id

\* the scoring API-key revision matches a track with an item of score 0
C4_Witness ==
  \E r \in Reqs :
    /\ variant = "apikey"
    /\ JustSelected(r)
    /\ LastEntry(r).found = "true"
    /\ bestMatch[r] = Cand6
    /\ ItemScoreTable[LastTrack(r), Cand6] = Rat(0, 4)

\* C5: Innertube.create is called at most once, and all callers of getClient
\* hold the same instance
C5_SingleClient ==
  /\ created <= 1
  /\ \A r1, r2 \in Reqs : (client[r1] # 0 /\ client[r2] # 0) => client[r1] = client[r2]

\* C6: a request whose tracks all resolve gets its 200 response with the
\* full list also when the persistence client or the insert fails
C6_PersistFailureRecovered ==
  \A r \in Reqs :
    ( /\ IsArrayReq(r)
      /\ pc[r] = "done"
      /\ persist[r] \in {"rejected", "threw"}
      /\ abortCause[r] \in {"none", "persist"}
      /\ \A i \in 1..body[r].tracks.len : body[r].tracks.items[i] \in ScoredTracks ) =>
      /\ response[r].ok
      /\ response[r].status = 200
      /\ Len(response[r].tracks) = body[r].tracks.len

\* C7: a request whose tracks value is missing or no array issues no search,
\* writes no history row and ends with an error payload and a non-2xx status
C7_InvalidInputRejected ==
  \A r \in Reqs :
    IsNonArrayReq(r) =>
      /\ searchCalls[r] = 0
      /\ \A k \in 1..Len(history) : history[k].req # r
      /\ pc[r] = "done" =>
           /\ ~response[r].ok
           /\ response[r].status >= 400
           /\ response[r].error # Undefined

\* C8: in a success response the success count is the number of entries
\* with found = true and the total is the length of the input
C8_CountsAgree ==
  \A r \in Reqs :
    response[r].ok =>
      /\ response[r].success =
           Cardinality({i \in 1..Len(response[r].tracks) : response[r].tracks[i].found = "true"})
      /\ response[r].total = body[r].tracks.len
      /\ 0 <= response[r].success
      /\ response[r].success <= response[r].total

\* a success response with some tracks matched and some not
C8_Witness ==
  \E r \in Reqs :
    /\ response[r].ok
    /\ 0 < response[r].success
    /\ response[r].success < response[r].total

\* C9: every entry pushed or returned has found = true exactly when it
\* carries a youtubeId
C9_FoundIffId ==
  \A r \in Reqs :
    /\ \A i \in 1..Len(final[r]) :
         /\ final[r][i].found \in {"true", "false"}
         /\ final[r][i].found = "true" <=> final[r][i].youtubeId # Undefined
    /\ \A i \in 1..Len(response[r].tracks) :
         response[r].tracks[i].found = "true" <=> response[r].tracks[i].youtubeId # Undefined

\* a returned entry, unmatched, whose input carried youtubeId and found: true,
\* next to a matched one whose input carried found: false
C9_Witness ==
  \E r \in Reqs :
    /\ response[r].ok
    /\ \E i \in 1..Len(response[r].tracks) :
         /\ body[r].tracks.items[i] = TrackB
         /\ response[r].tracks[i].found = "false"
    /\ \E i \in 1..Len(response[r].tracks) :
         /\ body[r].tracks.items[i] = TrackD
         /\ response[r].tracks[i].found = "true"

\* the track the selection state of r is about
SelectionTrack(r) == IF pc[r] = "search" THEN CurTrack(r) ELSE LastTrack(r)
Selecting(r) == pc[r] = "search" \/ JustSelected(r)

\* C10 as stated: the result tracked is the first one of greatest score
\* among all results returned so far for the track
C10_TracksFirstMax ==
  \A r \in Reqs : Selecting(r) => bestMatch[r] = refBest[r]

\* C10 amended: the result tracked is the first one of greatest score among
\* all results returned so far, provided that score is above 0; when no
\* result scores above 0 the Innertube revision tracks none and the API-key
\* revisions keep the first item
C10_TracksFirstMaxAboveZero ==
  \A r \in Reqs :
    Selecting(r) =>
      bestMatch[r] =
        IF refBest[r] = NoCand THEN NoCand
        ELSE IF /\ variant = "innertube"
                /\ ~RatGt(TrackScoreTable[SelectionTrack(r), refBest[r]], Zero)
          THEN NoCand
          ELSE refBest[r]

\* before the last query the Innertube selector holds Cand2, one of three
\* results of the greatest score
C10_Witness ==
  \E r \in Reqs :
    /\ variant = "innertube"
    /\ pc[r] = "search"
    /\ q[r] = NumQueries
    /\ CurTrack(r) = TrackA
    /\ bestMatch[r] = Cand2
    /\ TrackScoreTable[TrackA, Cand1] = TrackScoreTable[TrackA, Cand2]

\* C11: a track for which every search call returned an empty result list is
\* recorded without id and with found = false and leaves the success count
\* as it was; a success response for a single such track reports 0
C11_EmptyResultsUnmatched ==
  \A r \in Reqs :
    /\ (JustSelected(r) /\ refBest[r] = NoCand /\ (idx[r] - 1) \notin failedTracks[r]) =>
         /\ LastEntry(r).found = "false"
         /\ LastEntry(r).youtubeId = Undefined
         /\ success[r] =
              Cardinality({i \in 1..(idx[r] - 2) : final[r][i].found = "true"})
    /\ (response[r].ok /\ body[r].tracks.len = 1
           /\ refBest[r] = NoCand /\ failedTracks[r] = {}) =>
         /\ response[r].tracks[1].found = "false"
         /\ response[r].tracks[1].youtubeId = Undefined
         /\ response[r].success = 0

\* the Innertube revision answers for one track after five empty result lists
C11_Witness ==
  \E r \in Reqs :
    /\ variant = "innertube"
    /\ response[r].ok
    /\ body[r].tracks.len = 1
    /\ searchCalls[r] = NumQueries
    /\ refBest[r] = NoCand
    /\ failedTracks[r] = {}
    /\ response[r].success = 0

\* C12 as stated: of two results that differ only in that the title of one
\* carries the token "slowed", the one without the token scores at least as
\* high, for every source track
C12_UnmarkedScoresAtLeast ==
  scoring.pc = "scored" => RatGe(scoring.scorePlain, scoring.scoreMarked)

\* C12 amended: the one without the token scores at least as high whenever
\* the title with the token is not more similar to the cleaned source title
\* than the title without it
C12_UnmarkedScoresAtLeastUnlessCloser ==
  (scoring.pc = "scored" /\ ~RatGt(scoring.simMarked, scoring.simPlain)) =>
    RatGe(scoring.scorePlain, scoring.scoreMarked)

\* for a source named "Ab" the result "ab" scores strictly above "ab slowed",
\* whose title is the less similar one and carries the only negative token
C12_Witness ==
  /\ scoring.pc = "scored"
  /\ scoring.track.name = <<"A","b">>
  /\ scoring.plain.title = <<"a","b">>
  /\ scoring.marked.title = <<"a","b">> \o S_spaceSlowed
  /\ RatGt(scoring.simPlain, scoring.simMarked)
  /\ RatGt(scoring.scorePlain, scoring.scoreMarked)

\* the cleaned title, a space and the primary artist (empty when absent), trimmed
TitleAndArtist(v, track) ==
  trim((IF v = "innertube" THEN cleanTitle(track.name) ELSE cleanTrackName(track.name))
         \o <<" ">> \o PrimaryArtist(track))
TitleAndArtistTable ==
  [v \in {"innertube", "apikey"}, t \in NamedTracks |-> TitleAndArtist(v, t)]

\* C13: the query list of a track has a fixed positive length, the queries
\* searched so far are its first elements in list order, and the first query
\* searched is the cleaned title, a space and the primary artist, trimmed,
\* also when the track has no primary artist
C13_FirstQueryTitleArtist ==
  \A r \in Reqs :
    /\ (variant = "innertube" /\ pc[r] = "search") =>
         /\ Len(QueriesTable[CurTrack(r)]) = NumQueries
         /\ NumQueries >= 1
         /\ queriesSent[r] = SubSeq(QueriesTable[CurTrack(r)], 1, q[r])
    /\ (variant \in {"innertube", "apikey"} /\ pc[r] \in {"search", "fetch"}) =>
         /\ queriesSent[r] # <<>>
         /\ queriesSent[r][1] = trim(queriesSent[r][1])
         /\ queriesSent[r][1] = TitleAndArtistTable[variant, CurTrack(r)]

\* C14: a request passes at most one row to the conversion_history insert,
\* and only once every input track has its entry in the result list; no
\* response is sent while the insert is pending; a success response follows
\* a settled insert whose row carries the total and the success count of
\* the response
C14_InsertOnceBeforeResponse ==
  \A r \in Reqs :
    /\ Len(issued[r]) <= 1
    /\ issued[r] # <<>> =>
         /\ idx[r] > body[r].tracks.len
         /\ Len(final[r]) = body[r].tracks.len
         /\ issued[r][1].trackCount = body[r].tracks.len
         /\ issued[r][1].successCount = success[r]
    /\ pc[r] = "insert" => (issued[r] # <<>> /\ response[r] = NoResponse)
    /\ response[r].ok =>
         /\ Len(issued[r]) = 1
         /\ persist[r] \in {"stored", "rejected"}
         /\ Len(response[r].tracks) = body[r].tracks.len
         /\ issued[r][1].trackCount = response[r].total
         /\ issued[r][1].successCount = response[r].success

\* a success response for two tracks, one of them matched, after the row
\* with counts 2 and 1 was stored
C14_Witness ==
  \E r \in Reqs :
    /\ response[r].ok
    /\ response[r].total = 2
    /\ response[r].success = 1
    /\ persist[r] = "stored"
    /\ history = <<[req |-> r, trackCount |-> 2, successCount |-> 1]>>
    /\ issued[r] = history

====
